---- MODULE Spec2Model ----
(***************************************************************************)
(* Model of app.py (Bibli_recipe): the Flask handlers add_recipe,          *)
(* save_recipe, index and view_recipe, and the helpers                     *)
(* download_audio_with_ytdlp, transcribe_with_openai_whisper and           *)
(* extract_recipe_info.                                                    *)
(*                                                                         *)
(* A Python str is a sequence of tokens (TLA+ strings); concatenation,     *)
(* join and replace work on these sequences.  An optional value (a key a   *)
(* dict may lack) is a sequence of length 0 or 1.  A call result is a      *)
(* record [exc, value]: exc = "none" when the call returned, otherwise     *)
(* the exception's type, with its message in value.                        *)
(***************************************************************************)
EXTENDS Naturals, Sequences, FiniteSets, TLC

\* ------------------------------------------------------------------ bounds
\* longest list of the model's JSON reply that is enumerated in full
MaxLen == 2
\* number of submissions that reach the review form
MaxRuns == 2
\* number of rows the recipes table holds
MaxRows == 2

\* --------------------------------------------------------------- constants
HTTP_OK == 200
HTTP_BAD_REQUEST == 400
HTTP_NOT_FOUND == 404
HTTP_ERROR == 500
HTTP_REDIRECT == 302

INCONNU == <<"inconnu">>
INGREDIENTS_NON_DETECTES == <<"Ingrédients non détectés">>
TITRE_INCONNU == <<"Titre inconnu">>
RecordKeys == {"ingredients", "steps", "utensils", "cook_time", "prep_time"}

\* ------------------------------------------------------- Python primitives
None == <<>>
Some(v) == <<v>>

\* dict.get(key, default) on an optional entry
DictGet(opt, default) == IF opt = None THEN default ELSE opt[1]

\* truth value of a str (or of None): non-empty
Truthy(s) == s # <<>>

Returned(v) == [exc |-> "none", value |-> v]
Raised(type, msg) == [exc |-> type, value |-> msg]

RECURSIVE StrJoinLosingSeparator(_, _)
\* a join that drops the separator
StrJoinLosingSeparator(sep, parts) ==
  IF parts = <<>> THEN <<>>
  ELSE Head(parts) \o StrJoinLosingSeparator(sep, Tail(parts))

RECURSIVE StrJoin(_, _)
\* sep.join(parts), sep a one-token str
StrJoin(sep, parts) ==
  IF parts = <<>> THEN <<>>
  ELSE IF Len(parts) = 1 THEN parts[1]
  ELSE parts[1] \o <<sep>> \o StrJoin(sep, Tail(parts))

RECURSIVE StrReplace(_, _, _)
\* s.replace(old, new), old a one-token str
StrReplace(s, old, new) ==
  IF s = <<>> THEN <<>>
  ELSE (IF Head(s) = old THEN new ELSE <<Head(s)>>) \o StrReplace(Tail(s), old, new)

\* ------------------------------------------------- the model's reply (JSON)
SEL == <<"sel">>
LAIT == <<"lait">>
UN_KG == <<"1", " ", "kg">>

\* an element of "ingredients": an object with optional "nom" and "quantité",
\* or something that is not an object (a bare string)
IngredientEntries ==
  { [isdict |-> FALSE, nom |-> None, quantite |-> None],
    [isdict |-> TRUE, nom |-> None, quantite |-> None],
    [isdict |-> TRUE, nom |-> None, quantite |-> Some(UN_KG)],
    [isdict |-> TRUE, nom |-> Some(SEL), quantite |-> None],
    [isdict |-> TRUE, nom |-> Some(SEL), quantite |-> Some(<<>>)],
    [isdict |-> TRUE, nom |-> Some(SEL), quantite |-> Some(INCONNU)],
    [isdict |-> TRUE, nom |-> Some(LAIT), quantite |-> Some(UN_KG)] }

\* an element of "steps" or "utensils": a string, or a number; s is str(element)
StepElements ==
  { [isstr |-> TRUE, s |-> <<"a">>],
    [isstr |-> TRUE, s |-> <<"b", " ", "c">>],
    [isstr |-> FALSE, s |-> <<"5">>] }

UtensilElements ==
  { [isstr |-> TRUE, s |-> <<"couteau">>],
    [isstr |-> TRUE, s |-> <<"casserole">>],
    [isstr |-> FALSE, s |-> <<"7">>] }

SeqsUpTo(S, n) == UNION { [1..k -> S] : k \in 0..n }

\* JSON objects: each of the five fields present or absent.  One list is
\* enumerated up to MaxLen, the other two up to length 1.
ObjectsWith(I, S, U) ==
  { [ingredients |-> i, steps |-> s, utensils |-> u, cook_time |-> c, prep_time |-> p] :
      i \in {None} \cup {Some(x) : x \in I},
      s \in {None} \cup {Some(x) : x \in S},
      u \in {None} \cup {Some(x) : x \in U},
      c \in {None} \cup {Some(x) : x \in {<<"25", " ", "minutes">>}},
      p \in {None} \cup {Some(x) : x \in {<<"15", " ", "minutes">>}} }

JsonObjects ==
  ObjectsWith(SeqsUpTo(IngredientEntries, MaxLen), SeqsUpTo(StepElements, 1),
              SeqsUpTo(UtensilElements, 1))
  \cup ObjectsWith(SeqsUpTo(IngredientEntries, 1), SeqsUpTo(StepElements, MaxLen),
                   SeqsUpTo(UtensilElements, 1))
  \cup ObjectsWith(SeqsUpTo(IngredientEntries, 1), SeqsUpTo(StepElements, 1),
                   SeqsUpTo(UtensilElements, MaxLen))

EmptyObject ==
  [ingredients |-> None, steps |-> None, utensils |-> None, cook_time |-> None,
   prep_time |-> None]

\* what client.chat.completions.create and json.loads can produce:
\*   "raise"      the provider call raises
\*   "notjson"    the content is not valid JSON
\*   "nonobject"  the content is JSON but not an object (a list, a string)
\*   "object"     the content is a JSON object, data
Reply(kind, data) == [kind |-> kind, data |-> data]

ModelOutcomes ==
  { Reply(k, EmptyObject) : k \in {"raise", "notjson", "nonobject"} }
  \cup { Reply("object", d) : d \in JsonObjects }

\* combined texts given to extract_recipe_info
Texts ==
  { <<>>,
    <<"battre", "\n\n">>,
    <<"battre", "\n\n", "{", "oeufs", "}">> }

\* ------------------------------------------------ download_audio_with_ytdlp
\* the submitted URLs: none or empty, or a video URL
Urls == { <<>>, <<"https://video/1">> }

\* what ydl.extract_info can do: raise, or return the info dict; the audio
\* file is written under the tool's own file name, which is or is not the
\* one the helper predicts from the title
YdlOutcomes ==
  { [raises |-> TRUE, title |-> None, description |-> None, same_name |-> FALSE],
    [raises |-> FALSE, title |-> Some(<<"Purée">>),
     description |-> Some(<<"{", "oeufs", "}">>), same_name |-> TRUE],
    [raises |-> FALSE, title |-> None, description |-> None, same_name |-> TRUE],
    [raises |-> FALSE, title |-> Some(<<"Purée", "/", "maison">>),
     description |-> None, same_name |-> FALSE] }

\* yt_dlp.utils.sanitize_filename: a path separator does not stay in a file name
sanitize_filename(title) == StrReplace(title, "/", <<"_">>)

download_audio_with_ytdlp(url, output_dir, ydl) ==
  IF ydl.raises THEN Raised("DownloadError", <<"ERROR: Unsupported URL">>)
  ELSE LET video_title == DictGet(ydl.title, TITRE_INCONNU)
           description == DictGet(ydl.description, <<>>)
           sanitized_title == sanitize_filename(video_title)
           audio_file == output_dir \o <<"/">> \o sanitized_title \o <<".mp3">>
       IN Returned([audio_path |-> audio_file, video_title |-> video_title,
                    video_description |-> description,
                    audio_exists |-> ydl.same_name])

\* ------------------------------------------- transcribe_with_openai_whisper
\* the provider's HTTP responses: the status, the body, whether the body is
\* JSON, and the "text" field of that JSON when it has one
WhisperResponses ==
  { [status_code |-> HTTP_OK, text |-> <<"{\"text\": \"battre\"}">>, is_json |-> TRUE,
     json_text |-> Some(<<"battre">>)],
    [status_code |-> HTTP_OK, text |-> <<"{}">>, is_json |-> TRUE, json_text |-> None],
    [status_code |-> HTTP_OK, text |-> <<"<html>">>, is_json |-> FALSE,
     json_text |-> None],
    [status_code |-> 401, text |-> <<"Incorrect API key">>, is_json |-> FALSE,
     json_text |-> None] }

\* the part before the POST: open(audio_path, "rb")
OpenAudio(audio) ==
  IF audio.audio_exists THEN Returned(audio.audio_path)
  ELSE Raised("FileNotFoundError", <<"No such file: ">> \o audio.audio_path)

\* the part after the POST
transcribe_with_openai_whisper(resp) ==
  IF resp.status_code # HTTP_OK
    THEN Raised("Exception",
                <<"OpenAI Whisper API error ", ToString(resp.status_code), ": ">>
                  \o resp.text)
  ELSE IF ~resp.is_json THEN Raised("JSONDecodeError", <<"Expecting value">>)
  ELSE Returned(DictGet(resp.json_text, <<>>))

\* ------------------------------------------------------ extract_recipe_info
\* raw_transcript.replace("{", "{{").replace("}", "}}")
EscapeBraces(raw_transcript) ==
  StrReplace(StrReplace(raw_transcript, "{", <<"{", "{">>), "}", <<"}", "}">>)

\* the user message sent to the provider: the instructions, then the escaped text
Prompt(raw_transcript) ==
  <<"Analyse le texte ci-dessous", "\"\"\"">> \o EscapeBraces(raw_transcript)
    \o <<"\"\"\"">>

\* one element of the list comprehension over ingredients_raw:
\*   f"{ingredient['nom']} ({ingredient['quantité']})" if ingredient.get("quantité")
\*   else ingredient["nom"]
FormatIngredient(ingredient) ==
  IF ~ingredient.isdict
    THEN Raised("AttributeError", <<"'str' object has no attribute 'get'">>)
  ELSE IF Truthy(DictGet(ingredient.quantite, None))
    THEN IF ingredient.nom = None THEN Raised("KeyError", <<"'nom'">>)
         ELSE Returned(ingredient.nom[1] \o <<" (">> \o ingredient.quantite[1] \o <<")">>)
  ELSE IF ingredient.nom = None THEN Raised("KeyError", <<"'nom'">>)
       ELSE Returned(ingredient.nom[1])

RECURSIVE FormatIngredients(_)
\* the list comprehension: the entries in order, the first exception ends it
FormatIngredients(ingredients_raw) ==
  IF ingredients_raw = <<>> THEN Returned(<<>>)
  ELSE LET first == FormatIngredient(Head(ingredients_raw))
           rest == FormatIngredients(Tail(ingredients_raw))
       IN IF first.exc # "none" THEN first
          ELSE IF rest.exc # "none" THEN rest
          ELSE Returned(<<first.value>> \o rest.value)

\* f"- {step}": any element is formatted with str()
StepLine(step) == <<"-", " ">> \o step.s

\* "\n".join(f"- {step}" for step in steps)
JoinSteps(steps) == StrJoin("\n", [i \in 1..Len(steps) |-> StepLine(steps[i])])

\* ", ".join(utensils): str.join raises TypeError on an element that is not a str
JoinUtensils(utensils) ==
  IF \E i \in 1..Len(utensils) : ~utensils[i].isstr
    THEN Raised("TypeError", <<"sequence item: expected str instance">>)
  ELSE Returned(StrJoin(", ", [i \in 1..Len(utensils) |-> utensils[i].s]))

\* an except branch whose dict has no prep_time
FallbackRecordWithoutPrepTime(raw_transcript) ==
  [ingredients |-> INGREDIENTS_NON_DETECTES,
   steps |-> raw_transcript,
   utensils |-> <<>>,
   cook_time |-> INCONNU]

\* the dict of the except branch
FallbackRecord(raw_transcript) ==
  [ingredients |-> INGREDIENTS_NON_DETECTES,
   steps |-> raw_transcript,
   utensils |-> <<>>,
   cook_time |-> INCONNU,
   prep_time |-> INCONNU]

\* the body of the try block
ExtractBody(raw_transcript, reply) ==
  IF reply.kind = "raise" THEN Raised("APIError", <<"provider error">>)
  ELSE IF reply.kind = "notjson" THEN Raised("JSONDecodeError", <<"Expecting value">>)
  ELSE IF reply.kind = "nonobject"
    THEN Raised("AttributeError", <<"'list' object has no attribute 'get'">>)
  ELSE
    LET data == reply.data
        ingredients_raw == DictGet(data.ingredients, <<>>)
        steps == DictGet(data.steps, <<>>)
        utensils == DictGet(data.utensils, <<>>)
        cook_time == DictGet(data.cook_time, INCONNU)
        prep_time == DictGet(data.prep_time, INCONNU)
        ingredients == FormatIngredients(ingredients_raw)
        utensils_text == JoinUtensils(utensils)
    IN IF ingredients.exc # "none" THEN ingredients
       ELSE IF utensils_text.exc # "none" THEN utensils_text
       ELSE Returned([ingredients |-> StrJoin("\n", ingredients.value),
                      steps |-> JoinSteps(steps),
                      utensils |-> utensils_text.value,
                      cook_time |-> cook_time,
                      prep_time |-> prep_time])

\* an except clause that lets everything but a JSON parse error through
ExceptJSONDecodeErrorOnly(exc) == exc = "JSONDecodeError"

\* "except Exception" catches every exception the try block raises
ExceptException(exc) == exc # "none"

extract_recipe_info(raw_transcript, reply) ==
  LET body == ExtractBody(raw_transcript, reply)
  IN IF body.exc = "none" THEN body
     ELSE IF ExceptException(body.exc) THEN Returned(FallbackRecord(raw_transcript))
     ELSE body

\* ------------------------------------------------------------------- state
VARIABLES
  pc,             \* position of the request in progress, "idle" between requests
  video_url,      \* add_recipe: the submitted URL
  tmpdirs,        \* the scratch directories that exist on disk
  tmpdir,         \* add_recipe: the directory its with block created, if any
  calls,          \* add_recipe: the provider calls made for this submission
  info,           \* add_recipe: the result of download_audio_with_ytdlp
  whisper,        \* the transcription provider's HTTP response
  transcript,     \* add_recipe: the result of transcribe_with_openai_whisper
  combined_text,  \* add_recipe: combined_text
  model_reply,    \* the extraction provider's outcome
  prompt,         \* the user message sent to the extraction provider
  recipe_info,    \* add_recipe: the result of extract_recipe_info
  response,       \* the response of the last completed request
  form,           \* the review form (correction.html) the user last received
  produced,       \* history: number of review forms produced so far
  rows,           \* the recipes table
  rows_before     \* history: the recipes table when the request in progress began

vars == <<pc, video_url, tmpdirs, tmpdir, calls, info, whisper, transcript,
          combined_text, model_reply, prompt, recipe_info, response, form,
          produced, rows, rows_before>>

\* the locals of add_recipe
locals == <<video_url, tmpdir, calls, info, whisper, transcript, combined_text,
            model_reply, prompt, recipe_info>>

\* --------------------------------------------------------------- the routes
\* the extraction provider's outcomes during a submission
GoodObject ==
  [ingredients |-> Some(<<[isdict |-> TRUE, nom |-> Some(LAIT), quantite |-> Some(UN_KG)],
                          [isdict |-> TRUE, nom |-> Some(SEL), quantite |-> None]>>),
   steps |-> Some(<<[isstr |-> TRUE, s |-> <<"a">>], [isstr |-> TRUE, s |-> <<"b", " ", "c">>]>>),
   utensils |-> Some(<<[isstr |-> TRUE, s |-> <<"couteau">>]>>),
   cook_time |-> Some(<<"25", " ", "minutes">>),
   prep_time |-> Some(<<"15", " ", "minutes">>)]

AppReplies == { Reply("raise", EmptyObject), Reply("object", GoodObject) }

\* what the reviewer does to the suggested steps before saving
Edits == { "keep", "overwrite" }

Resp(route, status, page, body) ==
  Some([route |-> route, status |-> status, page |-> page, body |-> body])

\* tempfile.TemporaryDirectory(): a fresh directory, named by the least unused number
FreshDir == CHOOSE d \in 1..(Cardinality(tmpdirs) + 1) : d \notin tmpdirs

\* a scratch directory that is removed only when the block ends normally
RemovedOnNormalExitOnly(dirs, d, raising) == IF raising THEN dirs ELSE dirs \ {d}

\* TemporaryDirectory.__exit__: the with block removes the directory whether
\* the block ends normally or by an exception
TemporaryDirectoryExit(dirs, d, raising) == dirs \ {d}

\* no provider has been called for the request that begins
NoCalls ==
  /\ calls' = <<>>
  /\ info' = None
  /\ whisper' = None
  /\ transcript' = None
  /\ combined_text' = <<>>
  /\ model_reply' = None
  /\ prompt' = None
  /\ recipe_info' = None

\* a request other than a submission: add_recipe's locals are gone
NoLocals ==
  /\ video_url' = <<>>
  /\ tmpdir' = None
  /\ NoCalls

Init ==
  /\ pc = "idle"
  /\ video_url = <<>>
  /\ tmpdirs = {}
  /\ tmpdir = None
  /\ calls = <<>>
  /\ info = None
  /\ whisper = None
  /\ transcript = None
  /\ combined_text = <<>>
  /\ model_reply = None
  /\ prompt = None
  /\ recipe_info = None
  /\ response = None
  /\ form = None
  /\ produced = 0
  /\ rows = <<>>
  /\ rows_before = <<>>

\* GET / : index
Index ==
  /\ pc = "idle"
  /\ NoLocals
  /\ rows_before' = rows
  /\ response' = Resp("index", HTTP_OK, "index.html",
                      [i \in 1..Len(rows) |->
                         <<rows[i].id, rows[i].title, rows[i].video_url>>])
  /\ UNCHANGED <<pc, tmpdirs, form, produced, rows>>

\* GET /add : add_recipe shows the URL form
AddGet ==
  /\ pc = "idle"
  /\ NoLocals
  /\ rows_before' = rows
  /\ response' = Resp("add_recipe", HTTP_OK, "add_recipe.html", <<>>)
  /\ UNCHANGED <<pc, tmpdirs, form, produced, rows>>

\* POST /add, up to the with statement: the URL check, then the scratch directory
AddPostBegin ==
  /\ pc = "idle"
  /\ produced < MaxRuns
  /\ \E url \in Urls :
       /\ NoCalls
       /\ video_url' = url
       /\ rows_before' = rows
       /\ IF ~Truthy(url)
            THEN /\ response' = Resp("add_recipe", HTTP_BAD_REQUEST, "",
                                     <<"Veuillez fournir une URL de vidéo.">>)
                 /\ tmpdir' = None
                 /\ UNCHANGED <<pc, tmpdirs>>
            ELSE /\ tmpdir' = Some(FreshDir)
                 /\ tmpdirs' = tmpdirs \cup {FreshDir}
                 /\ response' = None
                 /\ pc' = "download"
  /\ UNCHANGED <<form, produced, rows>>

\* an exception leaves the with block and reaches "except Exception as e"
Abort(e) ==
  /\ tmpdirs' = TemporaryDirectoryExit(tmpdirs, tmpdir[1], TRUE)
  /\ response' = Resp("add_recipe", HTTP_ERROR, "",
                      <<"Erreur lors du traitement : ">> \o e.value)
  /\ pc' = "idle"

\* POST /add, step 1: download_audio_with_ytdlp(video_url, tmpdir)
Download ==
  /\ pc = "download"
  /\ \E ydl \in YdlOutcomes :
       LET r == download_audio_with_ytdlp(video_url, <<"/tmp/", ToString(tmpdir[1])>>, ydl)
       IN /\ calls' = Append(calls, "fetch")
          /\ info' = Some(r)
          /\ IF r.exc # "none" THEN Abort(r)
             ELSE pc' = "transcribe" /\ UNCHANGED <<tmpdirs, response>>
  /\ UNCHANGED <<video_url, tmpdir, whisper, transcript, combined_text, model_reply,
                 prompt, recipe_info, form, produced, rows, rows_before>>

\* POST /add, step 2: transcribe_with_openai_whisper(audio_path), combined_text
Transcribe ==
  /\ pc = "transcribe"
  /\ LET audio == info[1].value
         opened == OpenAudio(audio)
     IN IF opened.exc # "none"
          THEN /\ transcript' = Some(opened)
               /\ Abort(opened)
               /\ UNCHANGED <<calls, whisper, combined_text>>
          ELSE \E resp \in WhisperResponses :
                 LET raw_transcript == transcribe_with_openai_whisper(resp)
                 IN /\ calls' = Append(calls, "transcribe")
                    /\ whisper' = Some(resp)
                    /\ transcript' = Some(raw_transcript)
                    /\ IF raw_transcript.exc # "none"
                         THEN Abort(raw_transcript) /\ UNCHANGED combined_text
                         ELSE /\ combined_text' =
                                   raw_transcript.value \o <<"\n\n">>
                                     \o audio.video_description
                              /\ pc' = "extract"
                              /\ UNCHANGED <<tmpdirs, response>>
  /\ UNCHANGED <<video_url, tmpdir, info, model_reply, prompt, recipe_info, form,
                 produced, rows, rows_before>>

\* POST /add, step 3: extract_recipe_info(combined_text)
Extract ==
  /\ pc = "extract"
  /\ \E reply \in AppReplies :
       LET r == extract_recipe_info(combined_text, reply)
       IN /\ calls' = Append(calls, "extract")
          /\ model_reply' = Some(reply)
          /\ prompt' = Some(Prompt(combined_text))
          /\ recipe_info' = Some(r)
          /\ IF r.exc # "none" THEN Abort(r)
             ELSE pc' = "render" /\ UNCHANGED <<tmpdirs, response>>
  /\ UNCHANGED <<video_url, tmpdir, info, whisper, transcript, combined_text, form,
                 produced, rows, rows_before>>

\* the keyword arguments of render_template('correction.html', ...)
CorrectionArgs(url, title, text, record) ==
  [video_url |-> url,
   video_title |-> title,
   raw_transcript |-> text,
   suggested_ingredients |-> record["ingredients"],
   suggested_steps |-> record["steps"],
   suggested_utensils |-> record["utensils"],
   suggested_cook_time |-> record["cook_time"]]

\* POST /add, step 4: the reads of recipe_info, render_template, the end of the
\* with block
Render ==
  /\ pc = "render"
  /\ LET record == recipe_info[1].value
     IN IF ~({"ingredients", "steps", "utensils", "cook_time"} \subseteq DOMAIN record)
          THEN Abort(Raised("KeyError", <<"missing key">>)) /\ UNCHANGED <<form, produced>>
          ELSE \E template_ok \in BOOLEAN :
                 IF ~template_ok
                   THEN /\ Abort(Raised("TemplateError", <<"correction.html">>))
                        /\ UNCHANGED <<form, produced>>
                   ELSE LET args == CorrectionArgs(video_url, info[1].value.video_title,
                                                   combined_text, record)
                        IN /\ response' = Resp("add_recipe", HTTP_OK, "correction.html", args)
                           /\ form' = Some([fields |-> args, recipe |-> produced + 1])
                           /\ produced' = produced + 1
                           /\ tmpdirs' = TemporaryDirectoryExit(tmpdirs, tmpdir[1], FALSE)
                           /\ pc' = "idle"
  /\ UNCHANGED <<locals, rows, rows_before>>

\* POST /save_recipe: the reviewer submits the form, kept or overwritten; the
\* row's recipe field is history (the review form the row came from)
SaveRecipe ==
  /\ pc = "idle"
  /\ form # None
  /\ Len(rows) < MaxRows
  /\ \E edit \in Edits :
       LET f == form[1].fields
           steps == IF edit = "keep" THEN f.suggested_steps ELSE <<"-", " ", "corrigé">>
       IN rows' = Append(rows,
                         [id |-> Len(rows) + 1,
                          video_url |-> f.video_url,
                          title |-> f.video_title,
                          ingredients |-> f.suggested_ingredients,
                          steps |-> steps,
                          utensils |-> f.suggested_utensils,
                          cook_time |-> f.suggested_cook_time,
                          recipe |-> form[1].recipe])
  /\ NoLocals
  /\ rows_before' = rows
  /\ response' = Resp("save_recipe", HTTP_REDIRECT, "index", <<>>)
  /\ UNCHANGED <<pc, tmpdirs, form, produced>>

\* GET /recipe/<id> : view_recipe
ViewRecipe ==
  /\ pc = "idle"
  /\ \E recipe_id \in 1..MaxRows :
       IF \E i \in 1..Len(rows) : rows[i].id = recipe_id
         THEN LET row == rows[CHOOSE i \in 1..Len(rows) : rows[i].id = recipe_id]
              IN response' = Resp("view_recipe", HTTP_OK, "recipe.html",
                                  [id |-> row.id, title |-> row.title,
                                   video_url |-> row.video_url,
                                   ingredients |-> row.ingredients, steps |-> row.steps,
                                   utensils |-> row.utensils, cook_time |-> row.cook_time])
         ELSE response' = Resp("view_recipe", HTTP_NOT_FOUND, "",
                               <<"Recette introuvable.">>)
  /\ NoLocals
  /\ rows_before' = rows
  /\ UNCHANGED <<pc, tmpdirs, form, produced, rows>>

Next ==
  \/ Index
  \/ AddGet
  \/ AddPostBegin
  \/ Download
  \/ Transcribe
  \/ Extract
  \/ Render
  \/ SaveRecipe
  \/ ViewRecipe

Spec == Init /\ [][Next]_vars

\* -------------------------------------- extract_recipe_info on its own
InitExtract ==
  /\ pc = "extract"
  /\ video_url = None
  /\ tmpdirs = {}
  /\ tmpdir = None
  /\ calls = <<>>
  /\ info = None
  /\ whisper = None
  /\ transcript = None
  /\ combined_text \in Texts
  /\ model_reply \in {Some(r) : r \in ModelOutcomes}
  /\ prompt = None
  /\ recipe_info = None
  /\ response = None
  /\ form = None
  /\ produced = 0
  /\ rows = <<>>
  /\ rows_before = <<>>

CallExtract ==
  /\ pc = "extract"
  /\ prompt' = Some(Prompt(combined_text))
  /\ recipe_info' = Some(extract_recipe_info(combined_text, model_reply[1]))
  /\ pc' = "extracted"
  /\ UNCHANGED <<video_url, tmpdirs, tmpdir, calls, info, whisper, transcript,
                 combined_text, model_reply, response, form, produced, rows,
                 rows_before>>

NextExtract == CallExtract

SpecExtract == InitExtract /\ [][NextExtract]_vars

\* ------------------------------------------- properties of the extraction
RECURSIVE SplitOn(_, _)
\* the pieces of s between occurrences of the token sep; no piece for an empty s
SplitOn(s, sep) ==
  IF s = <<>> THEN <<>>
  ELSE IF \E i \in 1..Len(s) : s[i] = sep
    THEN LET i == CHOOSE j \in 1..Len(s) : s[j] = sep /\ \A k \in 1..(j - 1) : s[k] # sep
         IN <<SubSeq(s, 1, i - 1)>> \o
            (IF i = Len(s) THEN <<<<>>>> ELSE SplitOn(SubSeq(s, i + 1, Len(s)), sep))
  ELSE <<s>>

Extracted == recipe_info # None
TheReply == model_reply[1]
TheResult == recipe_info[1]
IsObject(reply) == reply.kind = "object"
Field(reply, k) == DictGet(reply.data[k], <<>>)

BadIngredient(reply) ==
  /\ IsObject(reply)
  /\ \E i \in 1..Len(Field(reply, "ingredients")) :
       LET e == Field(reply, "ingredients")[i] IN ~e.isdict \/ e.nom = None
BadUtensil(reply) ==
  /\ IsObject(reply)
  /\ \E i \in 1..Len(Field(reply, "utensils")) : ~Field(reply, "utensils")[i].isstr
BadStep(reply) ==
  /\ IsObject(reply)
  /\ \E i \in 1..Len(Field(reply, "steps")) : ~Field(reply, "steps")[i].isstr

\* the failures of the model outcome that end in the except branch
ReplyFails(reply) == ~IsObject(reply) \/ BadIngredient(reply) \/ BadUtensil(reply)
\* the failures as the claim lists them
ReplyFailsAsClaimed(reply) == ReplyFails(reply) \/ BadStep(reply)

HasBrace(text) == \E i \in 1..Len(text) : text[i] = "{"

\* C1 (as amended): extract_recipe_info never raises to its caller, and for every
\* failing model outcome (the provider call raises, the content is not valid
\* JSON, the JSON is not an object, an ingredient entry is not an object or
\* lacks its name key, a utensils element is not a string) it returns exactly
\* the fallback record, whose steps are the combined text without the brace
\* escaping.  A steps element that is not a string is not among the failures.
C1_FallbackOnFailure ==
  Extracted =>
    /\ TheResult.exc = "none"
    /\ ReplyFails(TheReply) => TheResult.value = FallbackRecord(combined_text)

\* C1 witness: a failing outcome was handled for a text that contains a brace
C1_Witness ==
  /\ Extracted
  /\ ReplyFails(TheReply)
  /\ HasBrace(combined_text)

\* C1 (as claimed): a steps element that is not a string is a failure too and
\* gives the fallback record.
C1_AsClaimed ==
  Extracted =>
    /\ TheResult.exc = "none"
    /\ ReplyFailsAsClaimed(TheReply) => TheResult.value = FallbackRecord(combined_text)

\* C2: a JSON object that lacks any of the five top-level fields gives the
\* fallback record, not a record built from the fields that are present.
C2_MissingFieldFallsBack ==
  (Extracted /\ IsObject(TheReply) /\ \E k \in RecordKeys : TheReply.data[k] = None)
    => TheResult = Returned(FallbackRecord(combined_text))

\* the line the claim gives for one ingredient entry
ClaimedIngredientLine(e) ==
  IF e.quantite # None /\ e.quantite[1] # <<>> /\ e.quantite[1] # INCONNU
    THEN e.nom[1] \o <<" (">> \o e.quantite[1] \o <<")">>
    ELSE e.nom[1]

\* C3: on a successful reply the ingredients text has one line per entry, in
\* order, "<name> (<quantity>)" when the quantity is present and not the
\* "inconnu" sentinel and "<name>" when it is absent, empty or the sentinel.
C3_IngredientLines ==
  (Extracted /\ ~ReplyFails(TheReply)) =>
    LET entries == Field(TheReply, "ingredients")
    IN SplitOn(TheResult.value.ingredients, "\n")
         = [i \in 1..Len(entries) |-> ClaimedIngredientLine(entries[i])]

\* the keys add_recipe reads from the record
KeysReadByAddRecipe == {"ingredients", "steps", "utensils", "cook_time"}

\* C7: every record extract_recipe_info returns has the five keys; on the
\* success path a field the reply omitted holds its default (empty text for
\* the three lists, "inconnu" for the two times); the keys add_recipe reads
\* are all there.
C7_AllKeysPresent ==
  (Extracted /\ TheResult.exc = "none") =>
    /\ DOMAIN TheResult.value = RecordKeys
    /\ KeysReadByAddRecipe \subseteq DOMAIN TheResult.value
    /\ ~ReplyFails(TheReply) =>
         /\ \A k \in {"ingredients", "steps", "utensils"} :
              TheReply.data[k] = None => TheResult.value[k] = <<>>
         /\ \A k \in {"cook_time", "prep_time"} :
              TheReply.data[k] = None => TheResult.value[k] = INCONNU

\* C7 witness: a record was returned for a reply that omits prep_time and steps
C7_Witness ==
  /\ Extracted
  /\ ~ReplyFails(TheReply)
  /\ TheReply.data.prep_time = None
  /\ TheReply.data.steps = None
  /\ TheReply.data.ingredients # None

\* C10: on a successful reply the steps text is the steps in their order, each
\* after "- ", separated by one newline ([a, b] gives "- a\n- b", the empty
\* list the empty text), and the utensils text is the utensils in their order
\* separated by ", ".
C10_Assembly ==
  (Extracted /\ ~ReplyFails(TheReply)) =>
    LET steps == Field(TheReply, "steps")
        utensils == Field(TheReply, "utensils")
        a == [isstr |-> TRUE, s |-> <<"a">>]
        bc == [isstr |-> TRUE, s |-> <<"b", " ", "c">>]
    IN /\ SplitOn(TheResult.value.steps, "\n")
            = [i \in 1..Len(steps) |-> <<"-", " ">> \o steps[i].s]
       /\ SplitOn(TheResult.value.utensils, ", ")
            = [i \in 1..Len(utensils) |-> utensils[i].s]
       /\ steps = <<>> => TheResult.value.steps = <<>>
       /\ steps = <<a, bc>> =>
            TheResult.value.steps = <<"-", " ", "a", "\n", "-", " ", "b", " ", "c">>

\* C10 witness: two different steps, or two different utensils, were assembled
C10_Witness ==
  /\ Extracted
  /\ ~ReplyFails(TheReply)
  /\ \/ /\ Len(Field(TheReply, "steps")) = 2
        /\ Field(TheReply, "steps")[1] # Field(TheReply, "steps")[2]
     \/ /\ Len(Field(TheReply, "utensils")) = 2
        /\ Field(TheReply, "utensils")[1] # Field(TheReply, "utensils")[2]

\* ------------------------------------------------ properties of the routes
Range(seq) == { seq[i] : i \in 1..Len(seq) }

\* a POST /add that passed the URL check has completed
SubmissionCompleted == pc = "idle" /\ tmpdir # None

FetchFailed == info # None /\ info[1].exc # "none"

\* the provider answered with a non-success status or without a text field
WhisperFailure ==
  /\ whisper # None
  /\ whisper[1].status_code # HTTP_OK \/ whisper[1].json_text = None

\* C4: transcribe_with_openai_whisper raises, and returns no transcript, when
\* the provider's status is not a success and when a success response has no
\* text field.
C4_TranscribeFails ==
  (transcript # None /\ WhisperFailure) => transcript[1].exc # "none"

TranscriptionFailed ==
  \/ transcript # None /\ transcript[1].exc # "none"
  \/ WhisperFailure

FailureDetail ==
  IF FetchFailed THEN info[1].value
  ELSE IF transcript # None /\ transcript[1].exc # "none" THEN transcript[1].value
  ELSE <<"no text in the transcription response">>

\* C5: when acquisition or transcription fails the submission is aborted:
\* extraction is not called, no review form is produced, the store is not
\* written, and the response is a failure carrying the error detail; the
\* providers are called at most once each, in the order fetch, transcribe,
\* extract, and extraction only after the two others succeeded.
C5_AbortOnFailure ==
  /\ \E n \in 0..3 : calls = SubSeq(<<"fetch", "transcribe", "extract">>, 1, n)
  /\ "extract" \in Range(calls) => ~FetchFailed /\ ~TranscriptionFailed
  /\ (FetchFailed \/ TranscriptionFailed) =>
       /\ recipe_info = None
       /\ pc = "idle"
       /\ response[1].status = HTTP_ERROR
       /\ response[1].page # "correction.html"
       /\ response[1].body = <<"Erreur lors du traitement : ">> \o FailureDetail
       /\ rows = rows_before

\* C6: once a submission has completed, by the review form or by an exception
\* from any step, its scratch directory does not exist; a submission rejected
\* for its missing URL created none.
C6_ScratchRemoved ==
  pc = "idle" =>
    /\ tmpdirs = {}
    /\ tmpdir # None => tmpdir[1] \notin tmpdirs
    /\ (response # None /\ response[1].status = HTTP_BAD_REQUEST) => tmpdir = None

\* C6 witness: a submission ended by an exception raised after extraction
C6_Witness ==
  /\ SubmissionCompleted
  /\ recipe_info # None
  /\ response[1].status = HTTP_ERROR

\* C8: a submission inserts no row, and no produced recipe has more than one
\* row, whatever the sequence of requests.
C8_PersistedOnce ==
  /\ SubmissionCompleted => rows = rows_before
  /\ \A r \in 1..produced :
       Cardinality({ i \in 1..Len(rows) : rows[i].recipe = r }) <= 1

\* C9: the review form carries the prep_time extract_recipe_info returned,
\* and every stored row holds a prep_time next to its cook_time.
C9_PrepTimeCarried ==
  /\ (SubmissionCompleted /\ response[1].page = "correction.html") =>
       /\ "suggested_prep_time" \in DOMAIN response[1].body
       /\ response[1].body["suggested_prep_time"] = recipe_info[1].value["prep_time"]
  /\ \A i \in 1..Len(rows) : "prep_time" \in DOMAIN rows[i]

====
